---- MODULE Spec2Model ----
(***************************************************************************)
(* Personal Core Sheet (src/src/App.tsx): the worksheet record held in a   *)
(* React state cell, its load from / save to localStorage, the field       *)
(* mutators and the validation that gates window.print.                    *)
(*                                                                         *)
(* JavaScript values are tagged records: [t |-> "string", s |-> chars],    *)
(* [t |-> "number", ...] (see Num), [t |-> "boolean", b |-> TRUE / FALSE], *)
(* [t |-> "null"], [t |-> "undefined"], [t |-> "NaN"],                     *)
(* [t |-> "array", a |-> seq], [t |-> "object", o |-> key -> value].       *)
(* A string is the sequence of its UTF-16 code units, so .length is Len; a *)
(* code unit is written as itself, as "\t", "\n", "\f", "\r", or as "u+"   *)
(* and its hexadecimal number ("u+A0").                                    *)
(* Array positions are 1-based here (source index i is position i + 1).    *)
(***************************************************************************)
EXTENDS Integers, Sequences, FiniteSets

VARIABLES
    storage,   \* the localStorage slot under STORAGE_KEY
    data,      \* the SheetData held by useState
    dataRef,   \* identity of the object held in data (a new one per setData)
    phase,     \* "boot": constructed, first render pending; "committed": the
               \* first render is on screen, its effects pending; "idle";
               \* "crashed": a render threw and the tree is unmounted
    calls      \* the external calls made by the most recent step, in order

vars == <<storage, data, dataRef, phase, calls>>

(************************* bounds of the model ****************************)
\* number of setData calls explored in the lifecycle specification
MaxEdits == 2

(************************* program constants ******************************)
VisionMax == 30
SloganMax == 30
EngineMax == 30
EpisodeTextMax == 80
EpisodeFromMax == 8
NumVisions == 3
NumEngines == 3
NumEpisodes == 6

(************************* JavaScript values ******************************)
Str(s) == [t |-> "string", s |-> s]
\* a Number: an integer of at most 9 digits; any other finite one, by the
\* digits of its integer part (no leading 0) and of its fraction (no
\* trailing 0); an infinity
Num(n) == [t |-> "number", n |-> n]
Dec(neg, int, frac) ==
    [t |-> "number", neg |-> neg, int |-> int, frac |-> frac]
PosInfinity == [t |-> "number", inf |-> 1]
NegInfinity == [t |-> "number", inf |-> 0 - 1]
Bool(b) == [t |-> "boolean", b |-> b]
NaN == [t |-> "NaN"]
Null == [t |-> "null"]
Undefined == [t |-> "undefined"]
Arr(a) == [t |-> "array", a |-> a]
Obj(o) == [t |-> "object", o |-> o]

\* "x".repeat(n)
Rep(n) == [i \in 1..n |-> "x"]

EmptyStr == Str(<<>>)

\* x == null || x === undefined: a property read on it throws TypeError
Nullish(v) == v.t \in {"null", "undefined"}

\* ToBoolean(v)
Truthy(v) ==
    CASE v.t \in {"null", "undefined"} -> FALSE
      [] v.t = "string" -> Len(v.s) > 0
      [] v.t = "number" -> IF "n" \in DOMAIN v THEN v.n # 0 ELSE TRUE
      [] v.t = "boolean" -> v.b
      [] OTHER -> TRUE

\* v[key] for a non-nullish v and a named (non-index) key
Get(v, key) ==
    CASE v.t = "object" -> IF key \in DOMAIN v.o THEN v.o[key] ELSE Undefined
      [] v.t \in {"string", "array"} /\ key = "length" ->
            Num(IF v.t = "string" THEN Len(v.s) ELSE Len(v.a))
      [] OTHER -> Undefined

\* Array.isArray(v)
IsArray(v) == v.t = "array"

(************************* numbers as operands of <= and > ****************)
\* digit sequences, most significant digit first
Zeros(n) == [i \in 1..n |-> 0]

MinOf(S) == CHOOSE i \in S : \A j \in S : i <= j

Reverse(s) == [i \in 1..Len(s) |-> s[Len(s) + 1 - i]]

StripLeft(ds) ==
    LET nz == {i \in 1..Len(ds) : ds[i] # 0}
    IN  IF nz = {} THEN <<>> ELSE SubSeq(ds, MinOf(nz), Len(ds))

StripRight(ds) == Reverse(StripLeft(Reverse(ds)))

RECURSIVE DigitsValue(_)
DigitsValue(ds) ==
    IF ds = <<>> THEN 0
    ELSE 10 * DigitsValue(SubSeq(ds, 1, Len(ds) - 1)) + ds[Len(ds)]

RECURSIVE NatDigits(_)
NatDigits(k) ==
    IF k = 0 THEN <<>> ELSE Append(NatDigits(k \div 10), k % 10)

\* 0.a <= 0.b for the fractions written with the digits a and b
LexLeq(a, b) ==
    LET n == IF Len(a) < Len(b) THEN Len(b) ELSE Len(a)
        da == [i \in 1..n |-> IF i <= Len(a) THEN a[i] ELSE 0]
        db == [i \in 1..n |-> IF i <= Len(b) THEN b[i] ELSE 0]
        diff == {i \in 1..n : da[i] # db[i]}
    IN  diff = {} \/ da[MinOf(diff)] < db[MinOf(diff)]

\* a < b for two numbers written without leading zeros
DigitsLess(a, b) ==
    Len(a) < Len(b) \/ (Len(a) = Len(b) /\ ~LexLeq(b, a))

\* ds * m + a without the digits above the Len(ds) lowest (s), and those
\* digits as a number (c); m <= 10^8. The lower half is done first and its
\* carry goes into the upper half (the test of lo.c has the lower half
\* evaluated before the upper one is started, which keeps the evaluation
\* shallow)
RECURSIVE MulStep(_, _, _)
MulStep(ds, m, a) ==
    IF ds = <<>> THEN [c |-> a, s |-> <<>>]
    ELSE IF Len(ds) = 1
    THEN [c |-> (ds[1] * m + a) \div 10, s |-> <<(ds[1] * m + a) % 10>>]
    ELSE LET h == Len(ds) \div 2
             lo == MulStep(SubSeq(ds, h + 1, Len(ds)), m, a)
             hi == IF lo.c = 0 THEN MulStep(SubSeq(ds, 1, h), m, 0)
                   ELSE MulStep(SubSeq(ds, 1, h), m, lo.c)
         IN  [c |-> hi.c, s |-> hi.s \o lo.s]

\* the digits of ds * m + a
MulAdd(ds, m, a) ==
    IF ds = <<>> THEN NatDigits(a)
    ELSE StripLeft(NatDigits(MulStep(ds, m, a).c) \o MulStep(ds, m, a).s)

\* the digits of ds * 5^k, half of the factors at a time
RECURSIVE Times5(_, _)
Times5(ds, k) ==
    IF ds = <<>> THEN <<>>
    ELSE IF k <= 11 THEN MulAdd(ds, 5^k, 0)
    ELSE Times5(Times5(ds, k \div 2), k - (k \div 2))

Pow5(m) == Times5(<<1>>, m)

\* the digits of ds * 2^k
RECURSIVE Times2(_, _)
Times2(ds, k) ==
    IF ds = <<>> THEN <<>>
    ELSE IF k <= 26 THEN MulAdd(ds, 2^k, 0)
    ELSE Times2(Times2(ds, k \div 2), k - (k \div 2))

\* 2^1024 - 2^970 = (2^54 - 1) * 2^970, halfway between the largest finite
\* Number and 2^1024: 309 digits; a number from there on rounds to Infinity
OverflowDigits ==
    Times2(<<1, 8, 0, 1, 4, 3, 9, 8, 5, 0, 9, 4, 8, 1, 9, 8, 3>>, 970)

\* 2^-1075 = 5^1075 / 10^1075, half the smallest Number above 0: 323 zeros
\* after the point, then these 752 digits; a number up to there rounds to 0
UnderflowDigits == Pow5(1075)

\* The decimal number 0.ds * 10^point, negated when neg, as a Number: an
\* integer of at most 9 digits is Num(n); from 2^1024 - 2^970 on it is an
\* infinity; up to 2^-1075 it is 0; any other keeps its decimal digits (the
\* comparison with an integer does the rounding, see NumLessEq)
FromDecimal(neg, ds, point) ==
    LET d == StripRight(StripLeft(ds))
        p == point - (Len(ds) - Len(StripLeft(ds)))
        n == Len(d)
        int == IF p <= 0 THEN <<>>
               ELSE [i \in 1..p |-> IF i <= n THEN d[i] ELSE 0]
        frac == IF p >= n THEN <<>>
                ELSE IF p < 0 THEN Zeros(0 - p) \o d
                ELSE SubSeq(d, p + 1, n)
    IN  IF d = <<>> THEN Num(0)
        ELSE IF p > 309 \/ (p = 309 /\ LexLeq(OverflowDigits, d))
        THEN (IF neg THEN NegInfinity ELSE PosInfinity)
        ELSE IF p < 0 - 323 \/ (p = 0 - 323 /\ LexLeq(d, UnderflowDigits))
        THEN Num(0)
        ELSE IF frac = <<>> /\ Len(int) <= 9
        THEN Num(IF neg THEN 0 - DigitsValue(int) ELSE DigitsValue(int))
        ELSE Dec(neg, int, frac)

\* WhiteSpace and LineTerminator code units (StrWhiteSpaceChar)
WhiteSpaceChars ==
    {"\t", "\n", "u+B", "\f", "\r", " ", "u+A0", "u+1680", "u+2000",
     "u+2001", "u+2002", "u+2003", "u+2004", "u+2005", "u+2006", "u+2007",
     "u+2008", "u+2009", "u+200A", "u+2028", "u+2029", "u+202F", "u+205F",
     "u+3000", "u+FEFF"}

TrimStart(s) ==
    LET ns == {i \in 1..Len(s) : s[i] \notin WhiteSpaceChars}
    IN  IF ns = {} THEN <<>> ELSE SubSeq(s, MinOf(ns), Len(s))

Trim(s) == Reverse(TrimStart(Reverse(TrimStart(s))))

LowerDigits ==
    <<"0", "1", "2", "3", "4", "5", "6", "7", "8", "9",
      "a", "b", "c", "d", "e", "f">>

UpperDigits == <<"A", "B", "C", "D", "E", "F">>

\* the value of a digit character, 16 for any other character
DigitOf(c) ==
    IF \E d \in 1..16 : LowerDigits[d] = c
    THEN (CHOOSE d \in 1..16 : LowerDigits[d] = c) - 1
    ELSE IF \E d \in 1..6 : UpperDigits[d] = c
    THEN (CHOOSE d \in 1..6 : UpperDigits[d] = c) + 9
    ELSE 16

AllDigits(cs, base) == \A i \in 1..Len(cs) : DigitOf(cs[i]) < base

\* the base of a 0x / 0o / 0b prefix, 0 for anything else
RadixOf(c) ==
    IF c \in {"x", "X"} THEN 16
    ELSE IF c \in {"o", "O"} THEN 8
    ELSE IF c \in {"b", "B"} THEN 2
    ELSE 0

\* the number written with the digits vs in the base, less than 2^24
RECURSIVE RadixValue(_, _)
RadixValue(vs, base) ==
    IF vs = <<>> THEN 0
    ELSE base * RadixValue(SubSeq(vs, 1, Len(vs) - 1), base) + vs[Len(vs)]

\* the decimal digits of ds * base^Len(vs) + the number written with vs
RECURSIVE RadixInto(_, _, _)
RadixInto(ds, vs, base) ==
    LET c == IF base = 16 THEN 6 ELSE IF base = 8 THEN 8 ELSE 24
        h == Len(vs) \div 2
    IN  IF ds = <<>> /\ vs = <<>> THEN <<>>
        ELSE IF Len(vs) <= c
        THEN MulAdd(ds, base^Len(vs), RadixValue(vs, base))
        ELSE RadixInto(RadixInto(ds, SubSeq(vs, 1, h), base),
                       SubSeq(vs, h + 1, Len(vs)), base)

RadixDigits(vs, base) == RadixInto(<<>>, vs, base)

\* the Number written with the characters cs in the base: with more than
\* 1024 bits below its first digit it is 2^1024 or more, which is Infinity
RadixNumber(cs, base) ==
    LET vs == StripLeft([i \in 1..Len(cs) |-> DigitOf(cs[i])])
        bits == IF base = 16 THEN 4 ELSE IF base = 8 THEN 3 ELSE 1
        ds == RadixDigits(vs, base)
    IN  IF (Len(vs) - 1) * bits >= 1024 THEN PosInfinity
        ELSE FromDecimal(FALSE, ds, Len(ds))

\* NonDecimalIntegerLiteral: no sign, at least one digit
IsRadixLiteral(t) ==
    /\ Len(t) >= 3
    /\ t[1] = "0"
    /\ RadixOf(t[2]) # 0
    /\ AllDigits(SubSeq(t, 3, Len(t)), RadixOf(t[2]))

\* StrDecimalLiteral: an optional sign, then Infinity or digits with an
\* optional point and an optional exponent
DecimalLiteral(t) ==
    LET neg == t[1] = "-"
        body == IF t[1] \in {"+", "-"} THEN Tail(t) ELSE t
        es == {i \in 1..Len(body) : body[i] \in {"e", "E"}}
        e == IF es = {} THEN Len(body) + 1 ELSE MinOf(es)
        mant == SubSeq(body, 1, e - 1)
        expo == SubSeq(body, e + 1, Len(body))
        dots == {i \in 1..Len(mant) : mant[i] = "."}
        dot == IF dots = {} THEN Len(mant) + 1 ELSE MinOf(dots)
        ip == SubSeq(mant, 1, dot - 1)
        fp == SubSeq(mant, dot + 1, Len(mant))
        eneg == expo # <<>> /\ expo[1] = "-"
        ecs == IF expo # <<>> /\ expo[1] \in {"+", "-"}
               THEN Tail(expo) ELSE expo
        eds == StripLeft([i \in 1..Len(ecs) |-> DigitOf(ecs[i])])
        \* with an exponent past far == digit count + 400 the number is an
        \* infinity or 0 whatever the digits are, as it is with far itself
        far == Len(ip \o fp) + 400
        ev == IF DigitsLess(NatDigits(far), eds) THEN far
              ELSE DigitsValue(eds)
        mantOk == /\ AllDigits(ip, 10)
                  /\ AllDigits(fp, 10)
                  /\ ip \o fp # <<>>
        expOk == es = {} \/ (ecs # <<>> /\ AllDigits(ecs, 10))
    IN  IF body = <<"I", "n", "f", "i", "n", "i", "t", "y">>
        THEN (IF neg THEN NegInfinity ELSE PosInfinity)
        ELSE IF mantOk /\ expOk
        THEN FromDecimal(neg, [i \in 1..Len(ip \o fp) |-> DigitOf((ip \o fp)[i])],
                         Len(ip) + (IF eneg THEN 0 - ev ELSE ev))
        ELSE NaN

\* StringToNumber: white space is stripped; the empty string is 0; a string
\* that is no StringNumericLiteral is NaN
StringToNumber(s) ==
    LET t == Trim(s)
    IN  IF t = <<>> THEN Num(0)
        ELSE IF IsRadixLiteral(t)
        THEN RadixNumber(SubSeq(t, 3, Len(t)), RadixOf(t[2]))
        ELSE DecimalLiteral(t)

\* ToPrimitive(v) throws TypeError: a parsed object with an own property
\* toString has no callable toString, and Object.prototype.valueOf gives the
\* object back; an array is joined, which converts each element that is not
\* null to a string
RECURSIVE ToPrimitiveThrows(_)
ToPrimitiveThrows(v) ==
    CASE v.t = "object" -> "toString" \in DOMAIN v.o
      [] v.t = "array" -> \E i \in 1..Len(v.a) : ToPrimitiveThrows(v.a[i])
      [] OTHER -> FALSE

\* ToNumber(v), the coercion a relational operator applies to an operand
\* compared with a number, for a v whose ToPrimitive does not throw: null is
\* 0, undefined NaN, a boolean 0 or 1, a string its numeric value; an array
\* is first joined with "," (null and undefined elements join as ""), a plain
\* object becomes "[object Object]"
RECURSIVE ToNumber(_)
ToNumber(v) ==
    CASE v.t = "number" -> v
      [] v.t = "null" -> Num(0)
      [] v.t = "boolean" -> Num(IF v.b THEN 1 ELSE 0)
      [] v.t = "string" -> StringToNumber(v.s)
      [] v.t = "array" ->
            IF Len(v.a) = 0 THEN Num(0)
            ELSE IF Len(v.a) > 1 THEN NaN
            ELSE IF Nullish(v.a[1]) THEN Num(0)
            ELSE IF v.a[1].t \in {"number", "string", "array"}
            THEN ToNumber(v.a[1])
            ELSE NaN
      [] OTHER -> NaN

RECURSIVE Log2(_)
Log2(n) == IF n < 2 THEN 0 ELSE 1 + Log2(n \div 2)

\* the fraction digits of half the gap between max and the next Number above
\* it, 2^(Log2(max) - 53) = 5^m / 10^m: a number up to there rounds to max
HalfUlp(max) ==
    LET m == 53 - Log2(max)
    IN  Zeros(m - Len(Pow5(m))) \o Pow5(m)

\* n <= max for a Number n or NaN and an integer max from 1 to 2^29
\* (the source passes 8, 30, 40 and 80)
NumLessEq(n, max) ==
    IF n.t # "number" THEN FALSE
    ELSE IF "n" \in DOMAIN n THEN n.n <= max
    ELSE IF "inf" \in DOMAIN n THEN n.inf < 0
    ELSE IF n.neg THEN TRUE
    ELSE IF Len(n.int) > 9 THEN FALSE
    ELSE IF DigitsValue(n.int) # max THEN DigitsValue(n.int) < max
    ELSE LexLeq(n.frac, HalfUlp(max))

\* a <= max where max is a number, for an a whose ToPrimitive does not throw
LessEq(a, max) == NumLessEq(ToNumber(a), max)

(************************* JSON ******************************************)
\* JSON.stringify of a value: a property whose value is undefined is left
\* out, an undefined array element and an infinity are written as null
RECURSIVE ToJSON(_)
ToJSON(v) ==
    CASE v.t = "array" ->
            Arr([i \in 1..Len(v.a) |->
                    IF v.a[i].t = "undefined" THEN Null ELSE ToJSON(v.a[i])])
      [] v.t = "object" ->
            Obj([k \in {k \in DOMAIN v.o : v.o[k].t # "undefined"} |->
                    ToJSON(v.o[k])])
      [] v.t = "number" /\ "inf" \in DOMAIN v -> Null
      [] OTHER -> v

\* The slot's content: [k |-> "unset"], [k |-> "text", s |-> ...] for a string
\* that is not JSON text, [k |-> "json", v |-> tree] for JSON text
Unset == [k |-> "unset"]
Text(s) == [k |-> "text", s |-> s]
Json(v) == [k |-> "json", v |-> v]

JSONstringify(d) == Json(ToJSON(d))

\* JSON.parse(stored) throws SyntaxError
ParseThrows(stored) == stored.k = "text"

\* JSON.parse(stored), for JSON text
JSONparse(stored) == stored.v

(************************* load ******************************************)
Episode(from, text) == Obj([from |-> from, text |-> text])

emptyEpisodes == [i \in 1..NumEpisodes |-> Episode(EmptyStr, EmptyStr)]

DefaultData ==
    Obj([visions |-> Arr([i \in 1..NumVisions |-> EmptyStr]),
         engineSlogan |-> EmptyStr,
         engines |-> Arr([i \in 1..NumEngines |-> EmptyStr]),
         episodes |-> Arr(emptyEpisodes)])

\* variant: the shape check without the test of engines
ShapeOkNoEngines(parsed) ==
    /\ Truthy(parsed)
    /\ IsArray(Get(parsed, "visions"))
    /\ Get(parsed, "engineSlogan").t = "string"
    /\ IsArray(Get(parsed, "episodes"))

\* the shape check of the parsed value
ShapeOk(parsed) ==
    /\ Truthy(parsed)
    /\ IsArray(Get(parsed, "visions"))
    /\ Get(parsed, "engineSlogan").t = "string"
    /\ IsArray(Get(parsed, "engines"))
    /\ IsArray(Get(parsed, "episodes"))

\* `if (stored)`: getItem gives null for an unset key, and "" is falsy
StoredTruthy(stored) ==
    /\ stored.k # "unset"
    /\ stored.k = "text" => Len(stored.s) > 0

Absent == [loaded |-> FALSE]
Loaded(d) == [loaded |-> TRUE, value |-> d]

loadDataFromStorage(stored) ==
    IF StoredTruthy(stored) /\ ~ParseThrows(stored) /\ ShapeOk(JSONparse(stored))
    THEN Loaded(JSONparse(stored))
    ELSE Absent

\* the calls loadDataFromStorage makes
LoadCalls(stored) ==
    IF StoredTruthy(stored) /\ ParseThrows(stored)
    THEN <<"getItem", "console.error">>
    ELSE <<"getItem">>

\* the useState initializer
InitialData(stored) ==
    IF loadDataFromStorage(stored).loaded
    THEN loadDataFromStorage(stored).value
    ELSE DefaultData

(************************* render ****************************************)
\* x.length compared with a number (x.length > 30, x.length <= maxLength)
\* throws TypeError: x is null or undefined, or the length cannot be
\* converted to a primitive
LengthCompareThrows(x) ==
    Nullish(x) \/ ToPrimitiveThrows(Get(x, "length"))

\* App() throws while rendering d. The JSX evaluates v.length > 30 for every
\* vision, data.engineSlogan.length > 30, e.length > 30 for every engine,
\* and for every episode ep.text.length > 80, ep.from.length > 8 (read for
\* the inner border whatever ep.text.length is) and
\* getEpisodeFontSize(ep.text.length). No error boundary exists, so React
\* unmounts the tree. data.visions.map and the like throw as well when the
\* value has no map.
RenderThrows(d) ==
    \/ ~IsArray(Get(d, "visions"))
    \/ \E i \in 1..Len(d.o.visions.a) : LengthCompareThrows(d.o.visions.a[i])
    \/ LengthCompareThrows(Get(d, "engineSlogan"))
    \/ ~IsArray(Get(d, "engines"))
    \/ \E i \in 1..Len(d.o.engines.a) : LengthCompareThrows(d.o.engines.a[i])
    \/ ~IsArray(Get(d, "episodes"))
    \/ \E i \in 1..Len(d.o.episodes.a) :
          \/ Nullish(d.o.episodes.a[i])
          \/ LengthCompareThrows(Get(d.o.episodes.a[i], "text"))
          \/ LengthCompareThrows(Get(d.o.episodes.a[i], "from"))

(************************* save effect ***********************************)
\* variant: the dependency compared by value
DepsChangedDeep(oldRef, newRef, oldData, newData) == oldData # newData

\* useEffect(..., [data]): the effect runs again when Object.is says the
\* dependency is another object
DepsChanged(oldRef, newRef, oldData, newData) == oldRef # newRef

\* variant: the catch block removes the item
SaveEffectClearing(d, ok) ==
    IF ok
    THEN /\ storage' = JSONstringify(d)
         /\ calls' = <<"setItem">>
    ELSE /\ storage' = Unset
         /\ calls' = <<"setItem", "console.error">>

\* the effect body; ok is whether localStorage.setItem returns (it throws
\* QuotaExceededError otherwise, leaving the slot as it was)
SaveEffect(d, ok) ==
    IF ok
    THEN /\ storage' = JSONstringify(d)
         /\ calls' = <<"setItem">>
    ELSE /\ storage' = storage
         /\ calls' = <<"setItem", "console.error">>

\* setData(updater): the new object is rendered and committed, then the
\* effects whose dependencies changed run
SetData(nd, ok) ==
    /\ data' = nd
    /\ dataRef' = dataRef + 1
    /\ IF RenderThrows(nd)
       THEN /\ phase' = "crashed"
            /\ calls' = <<>>
            /\ storage' = storage
       ELSE /\ phase' = "idle"
            /\ IF DepsChanged(dataRef, dataRef + 1, data, nd)
               THEN SaveEffect(nd, ok)
               ELSE /\ calls' = <<>>
                    /\ storage' = storage

(************************* mutators **************************************)
\* [...arr] with arr[index] = value, index a position of arr
Assign(arr, index, value) == Arr([arr.a EXCEPT ![index] = value])

handleVisionChange(prev, index, value) ==
    Obj([prev.o EXCEPT !.visions = Assign(prev.o.visions, index, Str(value))])

handleEngineChange(prev, index, value) ==
    Obj([prev.o EXCEPT !.engines = Assign(prev.o.engines, index, Str(value))])

\* the inline onChange of the slogan input
setEngineSlogan(prev, value) ==
    Obj([prev.o EXCEPT !.engineSlogan = Str(value)])

\* the own enumerable keys { ...ep } copies: none for null, undefined or a
\* number
OwnKeys(ep) == IF ep.t = "object" THEN DOMAIN ep.o ELSE {}

\* { ...ep, [field]: value }
SpreadWith(ep, field, value) ==
    Obj([k \in OwnKeys(ep) \cup {field} |->
            IF k = field THEN value ELSE ep.o[k]])

\* variant: the episode replaced by { [field]: value }, without ...ep
handleEpisodeChangeNoSpread(prev, index, field, value) ==
    Obj([prev.o EXCEPT !.episodes =
        Arr([i \in 1..Len(prev.o.episodes.a) |->
                IF i = index
                THEN SpreadWith(Null, field, Str(value))
                ELSE prev.o.episodes.a[i]])])

handleEpisodeChange(prev, index, field, value) ==
    Obj([prev.o EXCEPT !.episodes =
        Arr([i \in 1..Len(prev.o.episodes.a) |->
                IF i = index
                THEN SpreadWith(prev.o.episodes.a[i], field, Str(value))
                ELSE prev.o.episodes.a[i]])])

(************************* validation ************************************)
\* text.length <= maxLength, for a text on which it does not throw
validateTextLength(text, maxLength) ==
    LessEq(Get(text, "length"), maxLength)

AlertVision == "alert:VisionTooLong"
AlertSlogan == "alert:SloganTooLong"
AlertEngine == "alert:EngineTooLong"
AlertEpisodeText == "alert:EpisodeTextTooLong"
AlertEpisodeFrom == "alert:EpisodeFromTooLong"
Alerts ==
    {AlertVision, AlertSlogan, AlertEngine, AlertEpisodeText, AlertEpisodeFrom}

\* data.visions.filter((v) => !validateTextLength(v, 30)), and the like
TooLong(seq, max) ==
    SelectSeq(seq, LAMBDA v : ~validateTextLength(v, max))

\* ep.text or ep.from of every episode that has properties
EpisodeFields(d, field) ==
    [i \in 1..Len(d.o.episodes.a) |->
        IF Nullish(d.o.episodes.a[i]) THEN Undefined
        ELSE Get(d.o.episodes.a[i], field)]

\* validateTextLength throws on some element of a filtered array (it is
\* null or undefined, or its length has no primitive value): the TypeError
\* leaves the callback and the handler ends there
AnyThrows(seq) == \E i \in 1..Len(seq) : LengthCompareThrows(seq[i])

\* the calls handlePrint makes, the checks in the order of the source
handlePrint(d) ==
    IF AnyThrows(d.o.visions.a) THEN <<"TypeError">>
    ELSE IF Len(TooLong(d.o.visions.a, VisionMax)) > 0 THEN <<AlertVision>>
    ELSE IF LengthCompareThrows(d.o.engineSlogan) THEN <<"TypeError">>
    ELSE IF ~validateTextLength(d.o.engineSlogan, SloganMax)
         THEN <<AlertSlogan>>
    ELSE IF AnyThrows(d.o.engines.a) THEN <<"TypeError">>
    ELSE IF Len(TooLong(d.o.engines.a, EngineMax)) > 0 THEN <<AlertEngine>>
    ELSE IF AnyThrows(EpisodeFields(d, "text")) THEN <<"TypeError">>
    ELSE IF Len(TooLong(EpisodeFields(d, "text"), EpisodeTextMax)) > 0
         THEN <<AlertEpisodeText>>
    ELSE IF AnyThrows(EpisodeFields(d, "from")) THEN <<"TypeError">>
    ELSE IF Len(TooLong(EpisodeFields(d, "from"), EpisodeFromMax)) > 0
         THEN <<AlertEpisodeFrom>>
    ELSE <<"window.print">>

(************************* inputs ****************************************)
\* the strings typed into a field in the lifecycle specification
EditValues == {<<>>, Rep(EpisodeFromMax + 1)}

SavedDefault == JSONstringify(DefaultData)

\* blobs that pass the shape check without being a worksheet record
ShortBlob ==
    Json(Obj([visions |-> Arr(<<>>), engineSlogan |-> EmptyStr,
              engines |-> Arr(<<EmptyStr>>),
              episodes |-> Arr(<<Episode(EmptyStr, EmptyStr)>>)]))

NumberBlob ==
    Json(Obj([visions |-> Arr(<<Num(5)>>), engineSlogan |-> EmptyStr,
              engines |-> Arr(<<>>),
              episodes |-> Arr(<<Episode(Num(7), EmptyStr)>>)]))

NullEpisodeBlob ==
    Json(Obj([visions |-> Arr(<<EmptyStr, EmptyStr, EmptyStr>>),
              engineSlogan |-> EmptyStr,
              engines |-> Arr(<<EmptyStr, EmptyStr, EmptyStr>>),
              episodes |-> Arr([i \in 1..NumEpisodes |->
                                  IF i = 2 THEN Null
                                  ELSE Episode(EmptyStr, EmptyStr)])]))

NullVisionBlob ==
    Json(Obj([visions |-> Arr(<<Null>>), engineSlogan |-> EmptyStr,
              engines |-> Arr(<<>>), episodes |-> Arr(<<>>)]))

NoTextBlob ==
    Json(Obj([visions |-> Arr(<<>>), engineSlogan |-> EmptyStr,
              engines |-> Arr(<<>>),
              episodes |-> Arr(<<Obj([from |-> EmptyStr])>>)]))

\* a vision written as 1e999, which JSON.parse reads as Infinity
InfinityBlob ==
    Json(Obj([visions |-> Arr(<<PosInfinity>>), engineSlogan |-> EmptyStr,
              engines |-> Arr(<<>>), episodes |-> Arr(<<>>)]))

\* a vision whose length is an object with an own property toString
ToStringBlob ==
    Json(Obj([visions |-> Arr(<<Obj([length |->
                                        Obj([toString |-> Num(0)])])>>),
              engineSlogan |-> EmptyStr,
              engines |-> Arr(<<>>), episodes |-> Arr(<<>>)]))

NotJson == Text(<<"n", "o", "t", " ", "j", "s", "o", "n">>)

InitialBlobs ==
    {Unset, ShortBlob, NumberBlob, NullEpisodeBlob, NullVisionBlob,
     NoTextBlob, InfinityBlob, ToStringBlob}

(************************* lifecycle *************************************)
InitFrom(blobs) ==
    /\ storage \in blobs
    /\ data = InitialData(storage)
    /\ dataRef = 0
    /\ phase = "boot"
    /\ calls = LoadCalls(storage)

Init == InitFrom(InitialBlobs)

\* the first render: it commits, the handlers are attached and the save
\* effect is scheduled (useEffect is passive: it runs after the commit, in a
\* later task), or it throws and nothing is mounted
Mount ==
    /\ phase = "boot"
    /\ phase' = (IF RenderThrows(data) THEN "crashed" ELSE "committed")
    /\ calls' = <<>>
    /\ UNCHANGED <<storage, data, dataRef>>

\* variant: the effect skips its first run
MountEffectSkipped ==
    /\ phase = "committed"
    /\ phase' = "idle"
    /\ calls' = <<>>
    /\ UNCHANGED <<storage, data, dataRef>>

\* the save effect of the mount, run with the record of the first render
MountEffect ==
    /\ phase = "committed"
    /\ phase' = "idle"
    /\ \E ok \in BOOLEAN : SaveEffect(data, ok)
    /\ UNCHANGED <<data, dataRef>>

\* an event reaches a handler only while the tree is mounted
Mounted == phase \in {"committed", "idle"}

\* a change event enqueues an updater; React runs the effects still pending
\* from the previous commit before it renders the update, so the render of a
\* setData always follows the mount effect
CanEdit == phase = "idle"

\* the lifecycle specification explores MaxEdits setData calls
WithinBound == dataRef < MaxEdits

VisionChangeAt(index, value, ok) ==
    /\ CanEdit
    /\ WithinBound
    /\ SetData(handleVisionChange(data, index, value), ok)

EngineChangeAt(index, value, ok) ==
    /\ CanEdit
    /\ WithinBound
    /\ SetData(handleEngineChange(data, index, value), ok)

SloganChangeAt(value, ok) ==
    /\ CanEdit
    /\ WithinBound
    /\ SetData(setEngineSlogan(data, value), ok)

EpisodeChangeAt(index, field, value, ok) ==
    /\ CanEdit
    /\ WithinBound
    /\ SetData(handleEpisodeChange(data, index, field, value), ok)

\* the inputs React renders: one per element of each array
VisionIndexes == 1..Len(data.o.visions.a)
EngineIndexes == 1..Len(data.o.engines.a)
EpisodeIndexes == 1..Len(data.o.episodes.a)
EpisodeKeys == {"from", "text"}

VisionChange ==
    \E index \in VisionIndexes, value \in EditValues, ok \in BOOLEAN :
        VisionChangeAt(index, value, ok)

EngineChange ==
    \E index \in EngineIndexes, value \in EditValues, ok \in BOOLEAN :
        EngineChangeAt(index, value, ok)

SloganChange ==
    \E value \in EditValues, ok \in BOOLEAN :
        SloganChangeAt(value, ok)

EpisodeChange ==
    \E index \in EpisodeIndexes, field \in EpisodeKeys,
       value \in EditValues, ok \in BOOLEAN :
        EpisodeChangeAt(index, field, value, ok)

\* onClick of the print button
PrintClick ==
    /\ Mounted
    /\ calls' = handlePrint(data)
    /\ UNCHANGED <<storage, data, dataRef, phase>>

Next ==
    \/ Mount
    \/ MountEffect
    \/ VisionChange
    \/ EngineChange
    \/ SloganChange
    \/ EpisodeChange
    \/ PrintClick

Spec == Init /\ [][Next]_vars

(************************* startup, over many slot contents ***************)
Missing == [t |-> "missing"]

SheetKeys == {"visions", "engineSlogan", "engines", "episodes"}

\* what a stored object may hold under each key (Missing: the key is absent)
KeyChoices ==
    [visions |-> {Missing, Null, EmptyStr, Num(5), Arr(<<>>),
                  Arr(<<EmptyStr, EmptyStr, EmptyStr>>), Arr(<<Null>>),
                  Arr(<<Obj([length |-> Null])>>),
                  Arr(<<Obj([length |-> Str(<<"1", "e", "1">>)])>>),
                  Arr(<<Obj([length |-> Obj([toString |-> Num(0)])])>>)},
     engineSlogan |-> {Missing, Null, Num(5), Arr(<<>>), EmptyStr,
                       Str(Rep(SloganMax + 1))},
     engines |-> {Missing, EmptyStr, Arr(<<>>),
                  Arr(<<EmptyStr, EmptyStr, EmptyStr>>)},
     episodes |-> {Missing, Obj([from |-> EmptyStr, text |-> EmptyStr]),
                   Arr(<<>>), Arr(emptyEpisodes), Arr(<<Null>>)}]

ObjectOf(f) == Obj([k \in {k \in SheetKeys : f[k] # Missing} |-> f[k]])

StoredObjects ==
    {Json(ObjectOf(f)) :
        f \in {g \in [SheetKeys -> UNION {KeyChoices[k] : k \in SheetKeys}] :
                  \A k \in SheetKeys : g[k] \in KeyChoices[k]}}

LoadBlobs ==
    {Unset, Text(<<>>), NotJson, Json(Null), Json(Num(0)), Json(Num(5)),
     Json(EmptyStr), Json(Str(Rep(3))), Json(Arr(<<>>))}
    \cup StoredObjects

InitLoad == InitFrom(LoadBlobs)

NextLoad ==
    \/ Mount
    \/ MountEffect
    \/ PrintClick

SpecLoad == InitLoad /\ [][NextLoad]_vars

(************************* validation, over many records ******************)
\* arrays with one element set
OneSet(n, values) ==
    {[i \in 1..n |-> IF i = p THEN v ELSE EmptyStr] : p \in 1..n, v \in values}

Around(max) == {Str(Rep(max)), Str(Rep(max + 1))}

\* what JSON text can put under the key "length" of an object whose
\* comparison with a number does not throw
LengthValues ==
    {Null, Bool(TRUE), Num(VisionMax), Num(VisionMax + 1),
     Dec(FALSE, <<3, 0>>, <<5>>), PosInfinity,
     Str(<<"3", "0">>), Str(<<"3", "1">>), Str(<<" ", "7", " ">>),
     Str(<<"\t", "7">>), Str(<<"u+A0", "7", "\n">>),
     Str(<<"-", "1">>), EmptyStr, Str(<<"a">>),
     Str(<<"1", "e", "1">>), Str(<<"3", "1", "0", "E", "-", "1">>),
     Str(<<"1", "e", "9", "9", "9">>), Str(<<"1", ".", "5">>),
     Str(<<"3", "0", ".", "0", "1">>), Str(<<".", "5", "e", "+", "2">>),
     Str(<<"3", "0", ".", "0", "0", "0", "0", "0", "0", "0", "0", "0", "0",
           "0", "0", "0", "0", "0", "0", "0", "1">>),
     Str(<<"0", "x", "1", "0">>), Str(<<"0", "X", "1", "f">>),
     Str(<<"0", "b", "1", "1">>), Str(<<"0", "o", "7", "7">>),
     Str(<<"-", "0", "x", "1">>), Str(<<"0", "x">>),
     Str(<<"1", "e", "-", "9", "9", "9", "9", "9">>),
     Str(<<"3", "1", "e", "0", "0", "0", "0", "0">>),
     Str(<<"-", "I", "n", "f", "i", "n", "i", "t", "y">>),
     Str(<<"I", "n", "f", "i", "n", "i", "t", "y">>),
     Arr(<<>>), Arr(<<Num(VisionMax + 1)>>), Arr(<<Str(<<"3", "0">>)>>),
     Arr(<<Num(1), Num(2)>>), Arr(<<Null>>), Arr(<<Bool(TRUE)>>),
     Obj(<<>>), Obj([valueOf |-> Num(2)])}

\* values that are not strings: a number, an array holding one over-long
\* string, an object without a length, objects with one
NonStrings ==
    {Num(5), PosInfinity, Arr(<<Str(Rep(VisionMax + 1))>>), Obj(<<>>)}
    \cup {Obj([length |-> l]) : l \in LengthValues}

VisionArrays ==
    {[i \in 1..NumVisions |-> EmptyStr],
     [i \in 1..NumVisions |-> Str(Rep(VisionMax + 1))]}
    \cup OneSet(NumVisions, Around(VisionMax))

SloganValues == {EmptyStr} \cup Around(SloganMax)

EngineArrays ==
    {[i \in 1..NumEngines |-> EmptyStr],
     [i \in 1..NumEngines |-> Str(Rep(EngineMax + 1))]}
    \cup OneSet(NumEngines, Around(EngineMax))

EpisodeTexts ==
    {[i \in 1..NumEpisodes |-> EmptyStr]}
    \cup OneSet(NumEpisodes, Around(EpisodeTextMax))

EpisodeFroms ==
    {[i \in 1..NumEpisodes |-> EmptyStr]}
    \cup OneSet(NumEpisodes, Around(EpisodeFromMax))

SheetOf(vs, sl, es, ts, fs) ==
    Obj([visions |-> Arr(vs), engineSlogan |-> sl, engines |-> Arr(es),
         episodes |-> Arr([i \in 1..NumEpisodes |-> Episode(fs[i], ts[i])])])

\* records of strings, with lengths at and just over every limit
StringRecords ==
    {SheetOf(vs, sl, es, ts, fs) :
        vs \in VisionArrays, sl \in SloganValues, es \in EngineArrays,
        ts \in EpisodeTexts, fs \in EpisodeFroms}

\* records a stored blob can give: a vision, an engine, an episode text or
\* an episode from that is not a string, next to a slogan and a last episode
\* from within and over their limits
LoadedRecords ==
    {SheetOf(<<v, EmptyStr, EmptyStr>>, sl,
             <<EmptyStr, e, EmptyStr>>,
             [i \in 1..NumEpisodes |-> IF i = 2 THEN t ELSE EmptyStr],
             [i \in 1..NumEpisodes |->
                 IF i = 2 THEN w[1] ELSE IF i = NumEpisodes THEN w[2]
                 ELSE EmptyStr]) :
        v \in NonStrings \cup {EmptyStr},
        sl \in {EmptyStr, Str(Rep(SloganMax + 1))},
        e \in {EmptyStr, Obj([length |-> Str(<<"3", "1">>)])},
        t \in {EmptyStr, Obj([length |-> Str(<<"8", "1">>)]),
                Obj([length |-> Str(<<"8", "e", "1">>)])},
        w \in {<<EmptyStr, EmptyStr>>,
                <<EmptyStr, Str(Rep(EpisodeFromMax + 1))>>,
                <<Obj([length |-> Str(<<"\t", "7">>)]), EmptyStr>>,
                <<Obj([length |-> Str(<<"9">>)]), EmptyStr>>}}

\* a length written with 10000 digits more and the exponent -10000: 310 for
\* a vision, 10 (the nearest Number to 9.99...9) for an episode from
LongLength(ds) ==
    Obj([length |-> Str(ds \o [i \in 1..10000 |-> ds[Len(ds)]] \o
                          <<"e", "-", "1", "0", "0", "0", "0">>)])

LongRecords ==
    {SheetOf(<<v, EmptyStr, EmptyStr>>, EmptyStr,
             <<EmptyStr, EmptyStr, EmptyStr>>,
             [i \in 1..NumEpisodes |-> EmptyStr],
             [i \in 1..NumEpisodes |-> IF i = 2 THEN w ELSE EmptyStr]) :
        v \in {EmptyStr, LongLength(<<"3", "1", "0">>)},
        w \in {EmptyStr, LongLength(<<"9">>)}}

ValidateRecords == StringRecords \cup LoadedRecords \cup LongRecords

\* a mounted sheet whose record was loaded from the slot and saved back
InitValidate ==
    /\ data \in ValidateRecords
    /\ storage = JSONstringify(data)
    /\ dataRef = 0
    /\ phase = "idle"
    /\ calls = <<"setItem">>

NextValidate == PrintClick

SpecValidate == InitValidate /\ [][NextValidate]_vars

(************************* properties *************************************)
\* how many times fn occurs among the calls of a step
Times(cs, fn) == Cardinality({i \in 1..Len(cs) : cs[i] = fn})

AlertCount(cs) == Cardinality({i \in 1..Len(cs) : cs[i] \in Alerts})

\* a field within its limit: a string of at most max characters
FitsIn(v, max) == v.t = "string" /\ Len(v.s) <= max

VisionOver(d) ==
    \E i \in 1..Len(d.o.visions.a) : ~FitsIn(d.o.visions.a[i], VisionMax)
SloganOver(d) == ~FitsIn(d.o.engineSlogan, SloganMax)
EngineOver(d) ==
    \E i \in 1..Len(d.o.engines.a) : ~FitsIn(d.o.engines.a[i], EngineMax)
EpisodeTextOver(d) ==
    \E i \in 1..Len(d.o.episodes.a) :
        ~FitsIn(d.o.episodes.a[i].o.text, EpisodeTextMax)
EpisodeFromOver(d) ==
    \E i \in 1..Len(d.o.episodes.a) :
        ~FitsIn(d.o.episodes.a[i].o.from, EpisodeFromMax)

AllWithin(d) ==
    ~(VisionOver(d) \/ SloganOver(d) \/ EngineOver(d)
        \/ EpisodeTextOver(d) \/ EpisodeFromOver(d))

\* the step before this state was the print trigger
Printed == calls # <<"setItem">>

\* C1: a print trigger invokes window.print exactly once, with no message,
\* when every field is within its limit; otherwise it does not invoke it and
\* surfaces exactly one message; either way the sheet stays mounted and idle.
\* It fails on a loaded record with a field that is no string and whose
\* length the comparison reads as a number within the limit.
C1_PrintGate ==
    Printed =>
        /\ phase = "idle"
        /\ AllWithin(data) =>
              Times(calls, "window.print") = 1 /\ AlertCount(calls) = 0
        /\ ~AllWithin(data) =>
              Times(calls, "window.print") = 0 /\ AlertCount(calls) = 1

\* the violated rules, highest precedence first
ViolatedRules(d) ==
    SelectSeq(
        <<[alert |-> AlertVision, over |-> VisionOver(d)],
          [alert |-> AlertSlogan, over |-> SloganOver(d)],
          [alert |-> AlertEngine, over |-> EngineOver(d)],
          [alert |-> AlertEpisodeText, over |-> EpisodeTextOver(d)],
          [alert |-> AlertEpisodeFrom, over |-> EpisodeFromOver(d)]>>,
        LAMBDA r : r.over)

\* C2: when some field exceeds its limit, validation reports exactly the
\* violated rule of highest precedence (vision, slogan, engine, episode text,
\* episode from), however many fields violate at once. It fails on a loaded
\* record whose violating field of highest precedence is no string: the
\* check passes it and a rule of lower precedence is reported.
C2_Precedence ==
    (Printed /\ ~AllWithin(data)) =>
        calls = <<ViolatedRules(data)[1].alert>>

\* C3: in every reachable state the record has exactly 3 visions, 3 engines
\* and 6 episodes, whatever the slot held at startup.
C3_FixedLengths ==
    /\ Len(data.o.visions.a) = NumVisions
    /\ Len(data.o.engines.a) = NumEngines
    /\ Len(data.o.episodes.a) = NumEpisodes

\* the all-empty record, written out
IsAllEmpty(d) ==
    /\ DOMAIN d.o = SheetKeys
    /\ d.o.visions = Arr(<<Str(<<>>), Str(<<>>), Str(<<>>)>>)
    /\ d.o.engineSlogan = Str(<<>>)
    /\ d.o.engines = Arr(<<Str(<<>>), Str(<<>>), Str(<<>>)>>)
    /\ d.o.episodes.t = "array"
    /\ Len(d.o.episodes.a) = 6
    /\ \A i \in 1..6 :
          d.o.episodes.a[i] = Obj([from |-> Str(<<>>), text |-> Str(<<>>)])

HasKey(stored, key) ==
    /\ stored.k = "json"
    /\ stored.v.t = "object"
    /\ key \in DOMAIN stored.v.o

\* the slot contents the claim lists: key unset, not JSON text, one of the
\* four keys absent, or a key of the wrong kind
Unusable(stored) ==
    \/ stored.k = "unset"
    \/ stored.k = "text"
    \/ \E key \in SheetKeys : ~HasKey(stored, key)
    \/ stored.v.o.visions.t # "array"
    \/ stored.v.o.engineSlogan.t # "string"
    \/ stored.v.o.engines.t # "array"
    \/ stored.v.o.episodes.t # "array"

\* C4: when the key is unset, the blob is not JSON, a key is missing or of
\* the wrong kind, load gives absent, the only trace of a failure is the
\* logged error, and the initial record is the all-empty default.
C4_LoadFallsBack ==
    (phase = "boot" /\ Unusable(storage)) =>
        /\ loadDataFromStorage(storage) = Absent
        /\ IsAllEmpty(data)
        /\ calls \in {<<"getItem">>, <<"getItem", "console.error">>}

\* the slot holds an object with all four keys, visions being a string
C4_Witness ==
    /\ phase = "boot"
    /\ \A key \in SheetKeys : HasKey(storage, key)
    /\ storage.v.o.visions.t = "string"
    /\ storage.v.o.engines.t = "array"
    /\ IsAllEmpty(data)

\* a step of a mutator (each makes one more object), and the mutator and
\* arguments it was a step of
Mutated == dataRef' = dataRef + 1
VisionStep(index, value) == data' = handleVisionChange(data, index, value)
EngineStep(index, value) == data' = handleEngineChange(data, index, value)
SloganStep(value) == data' = setEngineSlogan(data, value)
EpisodeStep(index, field, value) ==
    data' = handleEpisodeChange(data, index, field, value)

\* C5: after a mutation whose write succeeded the slot holds the
\* serialization of the whole current record, and a load from it gives a
\* record equal to the one in memory.
C5_RoundTrip ==
    (dataRef > 0 /\ calls = <<"setItem">>) =>
        /\ storage = JSONstringify(data)
        /\ loadDataFromStorage(storage) = Loaded(data)

\* C6: when the write of a mutation fails, the error is logged, the record
\* in memory holds the mutated value, the slot keeps its content and the
\* sheet stays mounted, so later mutations and print triggers go on.
C6_WriteFailure ==
    [][(Mutated /\ Times(calls', "console.error") = 1) =>
        /\ calls' = <<"setItem", "console.error">>
        /\ storage' = storage
        /\ phase' = "idle"
        /\ \A index \in VisionIndexes, value \in EditValues :
              VisionStep(index, value) =>
                  data'.o.visions.a[index] = Str(value)
        /\ \A index \in EngineIndexes, value \in EditValues :
              EngineStep(index, value) =>
                  data'.o.engines.a[index] = Str(value)
        /\ \A value \in EditValues :
              SloganStep(value) => data'.o.engineSlogan = Str(value)
        /\ \A index \in EpisodeIndexes, field \in EpisodeKeys,
              value \in EditValues :
              EpisodeStep(index, field, value) =>
                  data'.o.episodes.a[index].o[field] = Str(value)
      ]_vars

\* a second mutation after a failed write: the slot still holds the default
\* record saved at startup while the record in memory has both values
C6_Witness ==
    /\ dataRef = 2
    /\ phase = "idle"
    /\ calls = <<"setItem", "console.error">>
    /\ storage = SavedDefault
    /\ data = Obj([DefaultData.o EXCEPT
                      !.visions = Arr(<<EmptyStr, Str(Rep(EpisodeFromMax + 1)),
                                        EmptyStr>>),
                      !.episodes = Arr([emptyEpisodes EXCEPT
                          ![4] = Episode(EmptyStr,
                                         Str(Rep(EpisodeFromMax + 1)))])])

\* C7: no failure is fatal: the sheet never reaches the crashed state.
C7_NeverCrashes == phase # "crashed"

\* C8: a mutator called with the value its field already holds leaves the
\* record equal to what it was and makes exactly one storage write.
C8_Idempotent ==
    [][Mutated =>
        /\ \A index \in VisionIndexes, value \in EditValues :
              (data.o.visions.a[index] = Str(value)
                  /\ VisionStep(index, value)) =>
                  data' = data /\ Times(calls', "setItem") = 1
        /\ \A index \in EngineIndexes, value \in EditValues :
              (data.o.engines.a[index] = Str(value)
                  /\ EngineStep(index, value)) =>
                  data' = data /\ Times(calls', "setItem") = 1
        /\ \A value \in EditValues :
              (data.o.engineSlogan = Str(value) /\ SloganStep(value)) =>
                  data' = data /\ Times(calls', "setItem") = 1
        /\ \A index \in EpisodeIndexes, field \in EpisodeKeys,
              value \in EditValues :
              (Get(data.o.episodes.a[index], field) = Str(value)
                  /\ EpisodeStep(index, field, value)) =>
                  data' = data /\ Times(calls', "setItem") = 1
      ]_vars

\* a field of the default record set once to the empty string it held: the
\* slot, left unset by a failed startup write, is written by that call
C8_Witness ==
    /\ dataRef = 1
    /\ data = DefaultData
    /\ calls = <<"setItem">>
    /\ storage = SavedDefault

\* the keys of the record other than key are as they were
OtherKeysSame(key) ==
    /\ DOMAIN data'.o = DOMAIN data.o
    /\ \A k \in DOMAIN data.o \ {key} : data'.o[k] = data.o[k]

\* the elements of the array under key other than index are as they were
OtherElementsSame(key, index) ==
    /\ data'.o[key].t = "array"
    /\ Len(data'.o[key].a) = Len(data.o[key].a)
    /\ \A i \in 1..Len(data.o[key].a) \ {index} :
          data'.o[key].a[i] = data.o[key].a[i]

\* C9: each mutator changes only its target: the element at the index, the
\* slogan, or the named sub-field of the episode at the index.
C9_Frame ==
    [][Mutated =>
        /\ \A index \in VisionIndexes, value \in EditValues :
              VisionStep(index, value) =>
                  /\ OtherKeysSame("visions")
                  /\ OtherElementsSame("visions", index)
                  /\ data'.o.visions.a[index] = Str(value)
        /\ \A index \in EngineIndexes, value \in EditValues :
              EngineStep(index, value) =>
                  /\ OtherKeysSame("engines")
                  /\ OtherElementsSame("engines", index)
                  /\ data'.o.engines.a[index] = Str(value)
        /\ \A value \in EditValues :
              SloganStep(value) =>
                  /\ OtherKeysSame("engineSlogan")
                  /\ data'.o.engineSlogan = Str(value)
        /\ \A index \in EpisodeIndexes, field \in EpisodeKeys,
              value \in EditValues :
              EpisodeStep(index, field, value) =>
                  /\ OtherKeysSame("episodes")
                  /\ OtherElementsSame("episodes", index)
                  /\ DOMAIN data'.o.episodes.a[index].o
                        = DOMAIN data.o.episodes.a[index].o
                  /\ \A k \in DOMAIN data.o.episodes.a[index].o \ {field} :
                        data'.o.episodes.a[index].o[k]
                            = data.o.episodes.a[index].o[k]
                  /\ data'.o.episodes.a[index].o[field] = Str(value)
      ]_vars

\* both sub-fields of one episode set one after the other, the rest empty
C9_Witness ==
    /\ dataRef = 2
    /\ data = Obj([DefaultData.o EXCEPT
                      !.episodes = Arr([emptyEpisodes EXCEPT
                          ![3] = Episode(Str(Rep(EpisodeFromMax + 1)),
                                         Str(Rep(EpisodeFromMax + 1)))])])

\* C10 as stated: once the sheet is mounted and before any mutation, the
\* slot holds the serialization of the initial record.
C10_StartupAlwaysWrites ==
    (phase = "idle" /\ dataRef = 0) => storage = JSONstringify(data)

\* C10: the save runs once after the first render commits and before any
\* mutation (a print trigger may come in between and writes nothing); when
\* that write succeeds the slot holds the serialization of the initial
\* record, so a blob that load rejected is replaced by the all-empty default
\* and a later load gives that default; when the write fails or the first
\* render does not commit the slot keeps its startup content.
C10_StartupSave ==
    [][/\ dataRef' > 0 => phase = "idle"
       /\ (phase # "idle" /\ phase' # "idle") =>
             /\ data' = data
             /\ storage' = storage
             /\ Times(calls', "setItem") = 0
       /\ (phase # "idle" /\ phase' = "idle") =>
             /\ data' = data
             /\ Times(calls', "setItem") = 1
             /\ calls' = <<"setItem">> =>
                   /\ storage' = JSONstringify(data)
                   /\ loadDataFromStorage(storage) = Absent =>
                         /\ IsAllEmpty(data)
                         /\ loadDataFromStorage(storage') = Loaded(data)
             /\ calls' # <<"setItem">> => storage' = storage
      ]_vars

\* the startup write replaced a blob that was not JSON by the default record
C10_Witness ==
    /\ phase = "idle"
    /\ dataRef = 0
    /\ calls = <<"setItem">>
    /\ IsAllEmpty(data)
    /\ storage = SavedDefault

====
